---------------------------- MODULE Spec2Model ----------------------------
(***************************************************************************)
(* Career_Predictor: the matching function predictCareer and the App       *)
(* component's handlers, in the two variants of App.tsx found in the       *)
(* repository:                                                             *)
(*   "simple"   (src/App.tsx)           skills only, unweighted            *)
(*   "weighted" (src/unnamed/part_000)  skills x3, interests x2, educ. x1  *)
(* Arrays are sequences; Array.prototype.filter / includes / reduce are    *)
(* computed element by element as the JavaScript does.                     *)
(***************************************************************************)
EXTENDS Integers, Sequences, FiniteSets, TLC

\* ---------------------------------------------------------------- bounds
\* Most tokens (skills plus interests) the UI holds selected at once.
MaxSelected == 2
\* Most tokens (skills plus interests) in one direct call of predictCareer.
MaxArgs == 3

\* ------------------------------------------------------------ the dataset
careerData ==
  << [skills |-> <<"python", "excel", "sql">>,
      interests |-> <<"technology", "finance">>,
      education |-> "bachelor", career |-> "Data Analyst"],
     [skills |-> <<"python", "r", "statistics">>,
      interests |-> <<"technology", "science">>,
      education |-> "master", career |-> "Data Scientist"],
     [skills |-> <<"java", "react", "sql">>,
      interests |-> <<"technology">>,
      education |-> "bachelor", career |-> "Software Developer"],
     [skills |-> <<"communication", "marketing">>,
      interests |-> <<"business">>,
      education |-> "diploma", career |-> "Marketing Officer"],
     [skills |-> <<"excel", "accounting">>,
      interests |-> <<"finance">>,
      education |-> "bachelor", career |-> "Accountant"],
     [skills |-> <<"biology", "lab work">>,
      interests |-> <<"health">>,
      education |-> "bachelor", career |-> "Laboratory Scientist"],
     [skills |-> <<"teaching", "writing">>,
      interests |-> <<"education">>,
      education |-> "bachelor", career |-> "Teacher"],
     [skills |-> <<"graphic design", "creativity">>,
      interests |-> <<"art">>,
      education |-> "diploma", career |-> "Graphic Designer"],
     [skills |-> <<"sales", "communication">>,
      interests |-> <<"business">>,
      education |-> "high school", career |-> "Sales Representative"],
     [skills |-> <<"project management", "leadership">>,
      interests |-> <<"business">>,
      education |-> "bachelor", career |-> "Project Manager"] >>

\* JavaScript's null (selectedEducation before any level is chosen).
null == "null"

\* ./src/strings of the weighted variant (the file is not among the sources);
\* the simple variant writes the same texts as literals.
strings ==
  [notFound |-> "Not found",
   noSuitableCareer |-> "No suitable career found. Please try different selections.",
   missingInformation |-> "Missing Information"]

\* The literals of the simple variant.
NotFoundLiteral == "Not found"
NoSuitableCareerLiteral == "No suitable career found. Please try different selections."
MissingInformationLiteral == "Missing Information"

\* ------------------------------------------------------- array primitives
\* Array.prototype.includes
includes(arr, x) == \E i \in DOMAIN arr : arr[i] = x

\* userTokens.filter(s => optionTokens.includes(s)).length
matchCount(userTokens, optionTokens) ==
  Len(SelectSeq(userTokens, LAMBDA s : includes(optionTokens, s)))

\* The elements of an array, as a set.
Elems(arr) == {arr[i] : i \in DOMAIN arr}

\* careerData.flatMap(c => c.skills) and careerData.flatMap(c => c.interests)
RECURSIVE flatMapSkills(_)
flatMapSkills(n) ==
  IF n = 0 THEN <<>> ELSE flatMapSkills(n - 1) \o careerData[n].skills

RECURSIVE flatMapInterests(_)
flatMapInterests(n) ==
  IF n = 0 THEN <<>> ELSE flatMapInterests(n - 1) \o careerData[n].interests

\* [...new Set(arr)]: the first occurrence of each element, in insertion order.
RECURSIVE dedup(_)
dedup(arr) ==
  IF arr = <<>> THEN <<>>
  ELSE LET front == dedup(SubSeq(arr, 1, Len(arr) - 1))
           last == arr[Len(arr)]
       IN IF includes(front, last) THEN front ELSE Append(front, last)

\* The order of the catalog's tokens under JavaScript's default sort
\* (by UTF-16 code unit: the space sorts before every letter).
LexOrder ==
  << "accounting", "art", "biology", "business", "communication", "creativity",
     "education", "excel", "finance", "graphic design", "health", "java",
     "lab work", "leadership", "marketing", "project management", "python",
     "r", "react", "sales", "science", "sql", "statistics", "teaching",
     "technology", "writing" >>

lexRank(x) == CHOOSE i \in DOMAIN LexOrder : LexOrder[i] = x

\* Array.prototype.sort() with the default comparator, by insertion.
RECURSIVE insertSorted(_, _)
insertSorted(sorted, x) ==
  IF sorted = <<>> THEN <<x>>
  ELSE IF lexRank(x) < lexRank(Head(sorted)) THEN <<x>> \o sorted
       ELSE <<Head(sorted)>> \o insertSorted(Tail(sorted), x)

RECURSIVE sort(_)
sort(arr) ==
  IF arr = <<>> THEN <<>>
  ELSE insertSorted(sort(SubSeq(arr, 1, Len(arr) - 1)), arr[Len(arr)])

allSkills == sort(dedup(flatMapSkills(Len(careerData))))
allInterests == sort(dedup(flatMapInterests(Len(careerData))))
allEducationLevels == <<"high school", "diploma", "bachelor", "master">>

\* The career labels of the catalog.
Labels == {careerData[i].career : i \in DOMAIN careerData}

\* ------------------------------------------------ predictCareer, weighted
\* Faulty variants of totalScore, which the claims must tell from it:
\* the skill and interest weights exchanged,
totalScoreSwappedWeights(option, userSkills, userInterests, userEducation) ==
  LET skillScore == matchCount(userSkills, option.skills) * 2
      interestScore == matchCount(userInterests, option.interests) * 3
      educationScore == IF userEducation = option.education THEN 1 ELSE 0
  IN skillScore + interestScore + educationScore

\* and the education term left out.
totalScoreNoEducation(option, userSkills, userInterests, userEducation) ==
  LET skillScore == matchCount(userSkills, option.skills) * 3
      interestScore == matchCount(userInterests, option.interests) * 2
  IN skillScore + interestScore

\* The callback's totalScore for one option.
totalScore(option, userSkills, userInterests, userEducation) ==
  LET skillScore == matchCount(userSkills, option.skills) * 3
      interestScore == matchCount(userInterests, option.interests) * 2
      educationScore == IF userEducation = option.education THEN 1 ELSE 0
  IN skillScore + interestScore + educationScore

\* Faulty variants of the reduce callback: one that takes every option that
\* scores above 0, whatever the accumulator holds,
reducerLastPositive(match, option, userSkills, userInterests, userEducation) ==
  LET score == totalScore(option, userSkills, userInterests, userEducation)
  IN IF score > 0
     THEN [career |-> option.career, score |-> score]
     ELSE match

\* and one that compares with >= in place of >.
reducerGreaterOrEqual(match, option, userSkills, userInterests, userEducation) ==
  LET score == totalScore(option, userSkills, userInterests, userEducation)
  IN IF score >= match.score
     THEN [career |-> option.career, score |-> score]
     ELSE match

\* The reduce callback: the accumulator after `option`.
reducer(match, option, userSkills, userInterests, userEducation) ==
  LET score == totalScore(option, userSkills, userInterests, userEducation)
  IN IF score > match.score
     THEN [career |-> option.career, score |-> score]
     ELSE match

\* careerData.reduce(callback, {career: strings.notFound, score: 0}) after
\* the first n options.
RECURSIVE reduce(_, _, _, _)
reduce(n, userSkills, userInterests, userEducation) ==
  IF n = 0 THEN [career |-> strings.notFound, score |-> 0]
  ELSE reducer(reduce(n - 1, userSkills, userInterests, userEducation),
               careerData[n], userSkills, userInterests, userEducation)

\* A faulty variant of predictCareer: the accumulator's career returned
\* without the test of its score.
predictCareerNoZeroCheck(userSkills, userInterests, userEducation) ==
  reduce(Len(careerData), userSkills, userInterests, userEducation).career

predictCareer(userSkills, userInterests, userEducation) ==
  LET bestMatch == reduce(Len(careerData), userSkills, userInterests, userEducation)
  IN IF bestMatch.score > 0 THEN bestMatch.career ELSE strings.noSuitableCareer

\* -------------------------------------------------- predictCareer, simple
\* Faulty variants of the simple score: the weighted variant's factor 3 kept,
simpleScoreTripled(option, userSkills) ==
  0 + matchCount(userSkills, option.skills) * 3

\* and the filter inverted, counting the option's skills the user lacks.
simpleScoreMissing(option, userSkills) ==
  0 + Len(SelectSeq(option.skills, LAMBDA s : ~includes(userSkills, s)))

\* The callback's score for one option.
simpleScore(option, userSkills) ==
  0 + matchCount(userSkills, option.skills)

\* A faulty variant of the simple callback: every option that scores above 0
\* is taken.
simpleReducerLastPositive(match, option, userSkills) ==
  LET score == simpleScore(option, userSkills)
  IN IF score > 0
     THEN [career |-> option.career, score |-> score]
     ELSE match

\* The reduce callback of the simple variant.
simpleReducer(match, option, userSkills) ==
  LET score == simpleScore(option, userSkills)
  IN IF score > match.score
     THEN [career |-> option.career, score |-> score]
     ELSE match

RECURSIVE simpleReduce(_, _)
simpleReduce(n, userSkills) ==
  IF n = 0 THEN [career |-> NotFoundLiteral, score |-> 0]
  ELSE simpleReducer(simpleReduce(n - 1, userSkills), careerData[n], userSkills)

simplePredictCareer(userSkills) ==
  LET bestMatch == simpleReduce(Len(careerData), userSkills)
  IN IF bestMatch.score > 0 THEN bestMatch.career ELSE NoSuitableCareerLiteral

\* ------------------------------------------------------------------ state
VARIABLES
  variant,            \* which App.tsx runs: "simple" or "weighted"
  selectedSkills,     \* useState<string[]>([])
  selectedInterests,  \* useState<string[]>([])            (weighted only)
  selectedEducation,  \* useState<EducationLevel | null>   (weighted only)
  predictedCareer,    \* useState('')
  alert,              \* title of the Alert the last handler raised, "" if none
  invoked,            \* whether the last handler called predictCareer
  userSkills,         \* arguments of a direct call of predictCareer
  userInterests,
  userEducation,
  pc,                 \* "idle" | "call" (before the call) | "return" (after)
  scores,             \* the score the callback computed for each option
  bestMatch,          \* the accumulator reduce returned
  result              \* the string predictCareer returned

uiVars == <<selectedSkills, selectedInterests, selectedEducation,
            predictedCareer, alert, invoked>>
fnVars == <<userSkills, userInterests, userEducation, pc, scores, bestMatch, result>>
vars == <<variant, uiVars, fnVars>>

Variants == {"simple", "weighted"}

\* ------------------------------------------------------- the App component
\* A faulty variant of the toggle updater: the token is appended whether or
\* not it is present.
toggleAlwaysAppend(prev, x) == Append(prev, x)

\* The updater of handleSkillToggle and handleInterestToggle.
toggle(prev, x) ==
  IF includes(prev, x) THEN SelectSeq(prev, LAMBDA s : s /= x) ELSE Append(prev, x)

\* The selection may grow by one more token.
Room == Len(selectedSkills) + Len(selectedInterests) < MaxSelected

Init ==
  /\ variant \in Variants
  /\ selectedSkills = <<>>
  /\ selectedInterests = <<>>
  /\ selectedEducation = null
  /\ predictedCareer = ""
  /\ alert = ""
  /\ invoked = FALSE
  /\ userSkills = <<>>
  /\ userInterests = <<>>
  /\ userEducation = null
  /\ pc = "idle"
  /\ scores = <<>>
  /\ bestMatch = [career |-> "", score |-> 0]
  /\ result = ""

\* A faulty variant of handleSkillToggle: a change of the skills also drops
\* the prediction displayed.
handleSkillToggleResetting(skill) ==
  /\ includes(selectedSkills, skill) \/ Room
  /\ selectedSkills' = toggle(selectedSkills, skill)
  /\ predictedCareer' = ""
  /\ alert' = ""
  /\ invoked' = FALSE
  /\ UNCHANGED <<variant, selectedInterests, selectedEducation, fnVars>>

\* The same in both variants.  A token is added only while the selection has
\* room (the bound of the model); removing one is always possible.
handleSkillToggle(skill) ==
  /\ includes(selectedSkills, skill) \/ Room
  /\ selectedSkills' = toggle(selectedSkills, skill)
  /\ alert' = ""
  /\ invoked' = FALSE
  /\ UNCHANGED <<variant, selectedInterests, selectedEducation, predictedCareer, fnVars>>

handleInterestToggle(interest) ==
  /\ variant = "weighted"
  /\ includes(selectedInterests, interest) \/ Room
  /\ selectedInterests' = toggle(selectedInterests, interest)
  /\ alert' = ""
  /\ invoked' = FALSE
  /\ UNCHANGED <<variant, selectedSkills, selectedEducation, predictedCareer, fnVars>>

handleEducationSelect(education) ==
  /\ variant = "weighted"
  /\ selectedEducation' = IF selectedEducation = education THEN null ELSE education
  /\ alert' = ""
  /\ invoked' = FALSE
  /\ UNCHANGED <<variant, selectedSkills, selectedInterests, predictedCareer, fnVars>>

\* handlePredict without its test for an empty skill selection (faulty).
handlePredictUnchecked ==
  /\ variant = "weighted"
  /\ predictedCareer' =
       predictCareer(selectedSkills, selectedInterests, selectedEducation)
  /\ alert' = ""
  /\ invoked' = TRUE
  /\ UNCHANGED <<variant, selectedSkills, selectedInterests, selectedEducation, fnVars>>

\* handlePredict of the weighted variant.
handlePredict ==
  /\ variant = "weighted"
  /\ IF Len(selectedSkills) = 0
     THEN /\ alert' = strings.missingInformation
          /\ invoked' = FALSE
          /\ UNCHANGED predictedCareer
     ELSE /\ predictedCareer' =
               predictCareer(selectedSkills, selectedInterests, selectedEducation)
          /\ alert' = ""
          /\ invoked' = TRUE
  /\ UNCHANGED <<variant, selectedSkills, selectedInterests, selectedEducation, fnVars>>

\* The simple variant's handlePredict without its test (faulty).
simpleHandlePredictUnchecked ==
  /\ variant = "simple"
  /\ predictedCareer' = simplePredictCareer(selectedSkills)
  /\ alert' = ""
  /\ invoked' = TRUE
  /\ UNCHANGED <<variant, selectedSkills, selectedInterests, selectedEducation, fnVars>>

\* handlePredict of the simple variant.
simpleHandlePredict ==
  /\ variant = "simple"
  /\ IF Len(selectedSkills) = 0
     THEN /\ alert' = MissingInformationLiteral
          /\ invoked' = FALSE
          /\ UNCHANGED predictedCareer
     ELSE /\ predictedCareer' = simplePredictCareer(selectedSkills)
          /\ alert' = ""
          /\ invoked' = TRUE
  /\ UNCHANGED <<variant, selectedSkills, selectedInterests, selectedEducation, fnVars>>

\* The simple variant has no interests and no education to reset: there they
\* are empty and null throughout.
handleClear ==
  /\ selectedSkills' = <<>>
  /\ selectedInterests' = <<>>
  /\ selectedEducation' = null
  /\ predictedCareer' = ""
  /\ alert' = ""
  /\ invoked' = FALSE
  /\ UNCHANGED <<variant, fnVars>>

Next ==
  \/ \E i \in DOMAIN allSkills : handleSkillToggle(allSkills[i])
  \/ \E i \in DOMAIN allInterests : handleInterestToggle(allInterests[i])
  \/ \E i \in DOMAIN allEducationLevels : handleEducationSelect(allEducationLevels[i])
  \/ handlePredict
  \/ simpleHandlePredict
  \/ handleClear

Spec == Init /\ [][Next]_vars


\* ------------------------------------------- predictCareer called directly
\* A token no profile of the catalog has.
AbsentToken == "underwater basket weaving"

\* The tokens a call may pass, in the order of their first appearance in the
\* catalog, followed by the absent token.
SkillUniverse == Append(dedup(flatMapSkills(Len(careerData))), AbsentToken)
InterestUniverse == Append(dedup(flatMapInterests(Len(careerData))), AbsentToken)
EducationArgs == Elems(allEducationLevels) \cup {null}

\* The duplicate-free arrays of at most k tokens of u, in u's order.
RECURSIVE SubArrays(_, _)
SubArrays(u, k) ==
  IF k = 0 \/ u = <<>> THEN {<<>>}
  ELSE SubArrays(Tail(u), k)
         \cup {<<Head(u)>> \o s : s \in SubArrays(Tail(u), k - 1)}

InitFn ==
  /\ variant \in Variants
  /\ selectedSkills = <<>>
  /\ selectedInterests = <<>>
  /\ selectedEducation = null
  /\ predictedCareer = ""
  /\ alert = ""
  /\ invoked = FALSE
  /\ userSkills \in SubArrays(SkillUniverse, MaxArgs)
  /\ userInterests \in IF variant = "weighted"
                       THEN SubArrays(InterestUniverse, MaxArgs - Len(userSkills))
                       ELSE {<<>>}
  /\ userEducation \in IF variant = "weighted" THEN EducationArgs ELSE {null}
  /\ pc = "call"
  /\ scores = <<>>
  /\ bestMatch = [career |-> "", score |-> 0]
  /\ result = ""

\* predictCareer(userSkills, userInterests, userEducation), weighted variant.
callPredictCareer ==
  /\ variant = "weighted"
  /\ pc = "call"
  /\ scores' = [n \in DOMAIN careerData |->
                  totalScore(careerData[n], userSkills, userInterests, userEducation)]
  /\ bestMatch' = reduce(Len(careerData), userSkills, userInterests, userEducation)
  /\ result' = predictCareer(userSkills, userInterests, userEducation)
  /\ pc' = "return"
  /\ UNCHANGED <<variant, uiVars, userSkills, userInterests, userEducation>>

\* predictCareer(userSkills), simple variant.
simpleCallPredictCareer ==
  /\ variant = "simple"
  /\ pc = "call"
  /\ scores' = [n \in DOMAIN careerData |-> simpleScore(careerData[n], userSkills)]
  /\ bestMatch' = simpleReduce(Len(careerData), userSkills)
  /\ result' = simplePredictCareer(userSkills)
  /\ pc' = "return"
  /\ UNCHANGED <<variant, uiVars, userSkills, userInterests, userEducation>>

NextFn ==
  \/ callPredictCareer
  \/ simpleCallPredictCareer

SpecFn == InitFn /\ [][NextFn]_vars

\* ============================================================ the claims
\* What the running variant returns when no profile scores above 0, and the
\* placeholder its scan starts from.
Sentinel ==
  IF variant = "weighted" THEN strings.noSuitableCareer ELSE NoSuitableCareerLiteral
Placeholder ==
  IF variant = "weighted" THEN strings.notFound ELSE NotFoundLiteral

Returned == pc = "return"

\* The greatest score of the scan, and the first catalog index that has it.
MaxScore ==
  CHOOSE m \in {scores[i] : i \in DOMAIN scores} :
    \A i \in DOMAIN scores : scores[i] <= m
FirstMax ==
  CHOOSE i \in DOMAIN scores :
    scores[i] = MaxScore /\ \A j \in 1..(i - 1) : scores[j] /= MaxScore
Tied == {i \in DOMAIN scores : scores[i] = MaxScore}

\* The accumulator of the running variant's reduce after the first n options.
Acc(n) ==
  IF variant = "weighted"
  THEN reduce(n, userSkills, userInterests, userEducation)
  ELSE simpleReduce(n, userSkills)

\* The running variant's score of option i for the skills sk (interests and
\* education as passed).
ScoreWith(i, sk) ==
  IF variant = "weighted"
  THEN totalScore(careerData[i], sk, userInterests, userEducation)
  ELSE simpleScore(careerData[i], sk)

\* C1, as stated: a returned label (not the sentinel) is the label of a
\* profile whose score is strictly greater than the score of every other
\* profile.
C1_StrictMaximum ==
  (Returned /\ result /= Sentinel) =>
    \E i \in DOMAIN careerData :
      /\ careerData[i].career = result
      /\ \A j \in DOMAIN careerData \ {i} : scores[i] > scores[j]

\* C1, amended: a returned label (not the sentinel) is the label of a profile
\* whose score is the maximum over all profiles: greater than or equal to the
\* score of every other profile, and strictly greater than the score of every
\* profile before it in the catalog.
C1_Maximum ==
  (Returned /\ result /= Sentinel) =>
    \E i \in DOMAIN careerData :
      /\ careerData[i].career = result
      /\ \A j \in DOMAIN careerData : scores[i] >= scores[j]
      /\ \A j \in 1..(i - 1) : scores[i] > scores[j]

\* C1's case: a label is returned while another profile has the same score.
C1_Witness ==
  /\ Returned
  /\ result \in Labels
  /\ Cardinality(Tied) >= 2

\* C2: the scan replaces the accumulator only at a profile whose score is
\* strictly greater than the accumulator's, and so, when the maximal score is
\* positive, the label returned is that of the first profile in catalog
\* order that has the maximal score.
C2_FirstOfTheTiedWins ==
  Returned =>
    /\ \A n \in DOMAIN careerData :
         Acc(n) /= Acc(n - 1) => scores[n] > Acc(n - 1).score
    /\ MaxScore > 0 =>
         /\ result = careerData[FirstMax].career
         /\ bestMatch = [career |-> careerData[FirstMax].career, score |-> MaxScore]
         /\ \A i \in Tied : FirstMax <= i

\* C2's case: three or more profiles share the positive maximal score and
\* the label returned is that of the first of them.
C2_Witness ==
  /\ Returned
  /\ MaxScore > 0
  /\ Cardinality(Tied) >= 3
  /\ result = careerData[FirstMax].career

\* C3: in the weighted variant the score of every profile is
\* 3 x |skills in common| + 2 x |interests in common| + 1 if the education
\* levels are equal; a null education adds nothing.
C3_WeightedScore ==
  (Returned /\ variant = "weighted") =>
    \A i \in DOMAIN careerData :
      LET common == Cardinality(Elems(userSkills) \cap Elems(careerData[i].skills))
          shared == Cardinality(Elems(userInterests) \cap Elems(careerData[i].interests))
      IN /\ scores[i] = 3 * common + 2 * shared
                          + (IF userEducation = careerData[i].education THEN 1 ELSE 0)
         /\ userEducation = null => scores[i] = 3 * common + 2 * shared

\* C3's case: a weighted call in which some profile earns all three terms,
\* with more skills than interests in common.
C3_Witness ==
  /\ Returned
  /\ variant = "weighted"
  /\ \E i \in DOMAIN careerData :
       /\ Cardinality(Elems(userSkills) \cap Elems(careerData[i].skills)) = 2
       /\ Cardinality(Elems(userInterests) \cap Elems(careerData[i].interests)) = 1
       /\ userEducation = careerData[i].education
       /\ scores[i] = 9

\* C4: in the simple variant the score of every profile is the number of
\* selected skills that the profile has, unweighted, and nothing else.
C4_SimpleScore ==
  (Returned /\ variant = "simple") =>
    \A i \in DOMAIN careerData :
      scores[i] = Cardinality({t \in Elems(userSkills) : t \in Elems(careerData[i].skills)})

\* C4's case: a simple call in which a profile matches on three skills.
C4_Witness ==
  /\ Returned
  /\ variant = "simple"
  /\ \E i \in DOMAIN careerData : scores[i] = 3

IndexOf(label) == CHOOSE i \in DOMAIN careerData : careerData[i].career = label

\* C7: weighted, skills {python}, interests {technology}, education master:
\* Data Scientist scores 6, Data Analyst 5, nothing scores more than 6, and
\* 'Data Scientist' is returned.
C7_WeightedScenario ==
  ( /\ Returned
    /\ variant = "weighted"
    /\ userSkills = <<"python">>
    /\ userInterests = <<"technology">>
    /\ userEducation = "master" ) =>
      /\ scores[IndexOf("Data Scientist")] = 6
      /\ scores[IndexOf("Data Analyst")] = 5
      /\ \A i \in DOMAIN careerData : scores[i] <= 6
      /\ result = "Data Scientist"

\* C7's case: that call has returned.
C7_Witness ==
  /\ Returned
  /\ variant = "weighted"
  /\ userSkills = <<"python">>
  /\ userInterests = <<"technology">>
  /\ userEducation = "master"
  /\ result \in Labels

\* C8: simple, skills {python, excel, sql}: Data Analyst scores 3, every
\* other profile less than 3, and 'Data Analyst' is returned.
C8_SimpleScenario ==
  ( /\ Returned
    /\ variant = "simple"
    /\ userSkills = <<"python", "excel", "sql">> ) =>
      /\ scores[IndexOf("Data Analyst")] = 3
      /\ \A i \in DOMAIN careerData \ {IndexOf("Data Analyst")} : scores[i] < 3
      /\ result = "Data Analyst"

\* C8's case: that call has returned.
C8_Witness ==
  /\ Returned
  /\ variant = "simple"
  /\ userSkills = <<"python", "excel", "sql">>
  /\ result \in Labels

\* C9: for every profile and every skill of it that the selection lacks, the
\* profile's score for the selection with that skill added is not less than
\* its score for the selection, in both variants.
C9_Monotonic ==
  Returned =>
    \A i \in DOMAIN careerData :
      \A t \in Elems(careerData[i].skills) \ Elems(userSkills) :
        ScoreWith(i, Append(userSkills, t)) >= scores[i]

\* C9's case: a profile already matched on one skill has another skill the
\* selection lacks.
C9_Witness ==
  /\ Returned
  /\ \E i \in DOMAIN careerData :
       /\ scores[i] > 0
       /\ Elems(userSkills) \cap Elems(careerData[i].skills) /= {}
       /\ Elems(careerData[i].skills) \ Elems(userSkills) /= {}

\* C10: through the UI, predictedCareer is '' or a career label of the
\* catalog; neither the sentinel nor the placeholder is ever displayed.
C10_DisplayedIsLabelOrEmpty ==
  /\ predictedCareer \in {""} \cup Labels
  /\ predictedCareer /= Sentinel
  /\ predictedCareer /= Placeholder

\* C10's case: handlePredict has just called predictCareer and a label is
\* displayed.
C10_Witness ==
  /\ invoked
  /\ selectedSkills /= <<>>
  /\ predictedCareer \in Labels

\* No token occurs twice in the array.
NoDuplicates(arr) == \A i, j \in DOMAIN arr : arr[i] = arr[j] => i = j

\* A toggle of x removes it from arr when it is there and appends it when it
\* is not, and a second toggle of x restores the set of tokens of arr (the
\* array itself when x was appended and then removed).
ToggleFlips(arr, x) ==
  LET once == toggle(arr, x)
      twice == toggle(once, x)
  IN IF includes(arr, x)
     THEN /\ Elems(once) = Elems(arr) \ {x}
          /\ Len(once) = Len(arr) - 1
          /\ twice = Append(once, x)
          /\ Elems(twice) = Elems(arr)
     ELSE /\ once = Append(arr, x)
          /\ twice = arr

\* C11: selectedSkills and selectedInterests never hold a token twice, so the
\* match count predictCareer takes from the arrays is the size of the set
\* intersection; a toggle removes a token that is present and appends one
\* that is absent, and two toggles of one token restore the set selected.
C11_NoDuplicateTokens ==
  /\ NoDuplicates(selectedSkills)
  /\ NoDuplicates(selectedInterests)
  /\ \A n \in DOMAIN careerData :
       /\ matchCount(selectedSkills, careerData[n].skills)
            = Cardinality(Elems(selectedSkills) \cap Elems(careerData[n].skills))
       /\ matchCount(selectedInterests, careerData[n].interests)
            = Cardinality(Elems(selectedInterests) \cap Elems(careerData[n].interests))
  /\ \A i \in DOMAIN allSkills : ToggleFlips(selectedSkills, allSkills[i])
  /\ \A i \in DOMAIN allInterests : ToggleFlips(selectedInterests, allInterests[i])

\* C11's case: two skills of one profile are selected, after toggles, and
\* the profile's match count is 2.
C11_Witness ==
  /\ Len(selectedSkills) = 2
  /\ \E n \in DOMAIN careerData : matchCount(selectedSkills, careerData[n].skills) = 2

\* What predictCareer returns for the selection as it stands.
CurrentPrediction ==
  IF variant = "weighted"
  THEN predictCareer(selectedSkills, selectedInterests, selectedEducation)
  ELSE simplePredictCareer(selectedSkills)

\* C12: the toggles and the education selection leave predictedCareer as it
\* is: no step that changes it together with a selection is one of theirs.
\* It changes only in a handlePredict with skills selected, which stores the
\* prediction for the selection and leaves the selection alone, or in a
\* handleClear, which stores '' and empties skills and interests and sets the
\* education to null.
C12_PredictionPersists ==
  [][ /\ predictedCareer' /= predictedCareer =>
           /\ selectedSkills' /= selectedSkills =>
                ~ \E i \in DOMAIN allSkills : handleSkillToggle(allSkills[i])
           /\ selectedInterests' /= selectedInterests =>
                ~ \E i \in DOMAIN allInterests : handleInterestToggle(allInterests[i])
           /\ selectedEducation' /= selectedEducation =>
                ~ \E i \in DOMAIN allEducationLevels :
                    handleEducationSelect(allEducationLevels[i])
           /\ \/ /\ Len(selectedSkills) > 0
                 /\ invoked'
                 /\ predictedCareer' = CurrentPrediction
                 /\ UNCHANGED <<selectedSkills, selectedInterests, selectedEducation>>
              \/ /\ predictedCareer' = ""
                 /\ selectedSkills' = <<>>
                 /\ selectedInterests' = <<>>
                 /\ selectedEducation' = null
      /\ handleClear =>
           /\ predictedCareer' = ""
           /\ selectedSkills' = <<>>
           /\ selectedInterests' = <<>>
           /\ selectedEducation' = null ]_vars

\* C12's case: a label is displayed that is not the prediction for the
\* selection as it stands now (the selection changed after the prediction).
C12_Witness ==
  /\ predictedCareer \in Labels
  /\ selectedSkills /= <<>>
  /\ ~invoked
  /\ predictedCareer /= CurrentPrediction

=============================================================================
